---- MODULE Spec2Model ----
(***************************************************************************)
(* The bump-sequence operation of stellar-base-rs                          *)
(* (src/operations/bump_sequence.rs): the operation value, its builder,    *)
(* and its bridge to the XDR operation body.                               *)
(*                                                                         *)
(* An i64 is held as its eight two's-complement big-endian bytes           *)
(* (i64::to_be_bytes): i64::MAX and i64::MIN are beyond the integers the   *)
(* model checker computes with, and the eight bytes are also what the wire *)
(* carries. `n < 0` on an i64 is then the test of the sign bit.            *)
(***************************************************************************)
EXTENDS Integers, Sequences, FiniteSets, TLC

VARIABLES
    builder,     \* the BumpSequenceOperationBuilder the caller holds, or Moved
    calls,       \* history: the setter calls made on the builder, in order
    result,      \* what build() returned: Pending, Ok(..), Err(..) or Unwrapped
    op,          \* the standalone BumpSequenceOperation the caller holds, or NoOp
    xdr_body,    \* what to_xdr_operation_body last returned, or NoBody
    xdr_of,      \* history: the operation value xdr_body was computed from
    decoded,     \* what from_xdr_operation_body last returned, or NotDecoded
    decoded_args,\* history: the arguments of that call
    envelope,    \* the signed TransactionEnvelope the caller holds, or NoEnvelope
    text,        \* what envelope.xdr_base64() last returned, or NoText
    back,        \* what TransactionEnvelope::from_xdr_base64(text) returned
    text_again   \* what back.xdr_base64() returned

vars == <<builder, calls, result, op, xdr_body, xdr_of, decoded, decoded_args,
          envelope, text, back, text_again>>

builderVars == <<builder, calls, result>>
codecVars == <<xdr_body, xdr_of, decoded, decoded_args>>
envelopeVars == <<envelope, text, back, text_again>>

(***************************************************************************)
(* Bounds of the model.                                                    *)
(***************************************************************************)
\* The longest chain of setter calls made on one builder.
MaxCalls == 3

(***************************************************************************)
(* Option<T> and Result<T>.                                                *)
(***************************************************************************)
None == [some |-> FALSE]
Some(v) == [some |-> TRUE, value |-> v]

Ok(v) == [state |-> "ok", value |-> v]
Err(e) == [state |-> "err", error |-> e]

\* Error::InvalidOperation(String)
InvalidOperation(msg) == [kind |-> "InvalidOperation", msg |-> msg]

(***************************************************************************)
(* i64 values, as eight big-endian two's-complement bytes.                 *)
(***************************************************************************)
Byte == 0..255

I64Min == <<128, 0, 0, 0, 0, 0, 0, 0>>
I64MinusOne == <<255, 255, 255, 255, 255, 255, 255, 255>>
I64Zero == <<0, 0, 0, 0, 0, 0, 0, 0>>
I64Test123 == <<0, 0, 0, 0, 0, 0, 0, 123>>
I64Max == <<127, 255, 255, 255, 255, 255, 255, 255>>

\* n < 0 for an i64 n: the sign bit of the most significant byte is set.
I64Negative(n) == n[1] >= 128

\* The target values tried: both boundaries of i64, both sides of zero, and
\* the value of the test fixture.
BumpValues == {I64Min, I64MinusOne, I64Zero, I64Test123, I64Max}

(***************************************************************************)
(* Accounts.  The three key pairs of the tests, by their public key bytes. *)
(***************************************************************************)
Key0 == <<224, 220, 109, 225, 114, 92, 172, 102, 81, 98, 181, 47, 172, 231,
          53, 178, 138, 34, 67, 228, 29, 18, 77, 108, 185, 45, 112, 163, 234,
          46, 114, 197>>
Key1 == <<37, 202, 241, 218, 15, 199, 110, 207, 232, 132, 94, 66, 84, 81, 187,
          7, 146, 73, 72, 148, 126, 58, 160, 202, 204, 49, 138, 237, 210, 135,
          100, 126>>
Key2 == <<126, 17, 203, 52, 214, 53, 245, 225, 171, 2, 212, 160, 44, 61, 213,
          165, 164, 102, 216, 8, 205, 143, 18, 1, 89, 8, 61, 205, 46, 21, 89,
          152>>

PublicKey(k) == [type |-> "PublicKey", key |-> k]
\* MuxedAccount::Ed25519(PublicKey)
MuxedEd25519(k) == [type |-> "MuxedAccount", variant |-> "Ed25519", key |-> k]

\* S: Into<MuxedAccount>.  A PublicKey becomes the Ed25519 variant; a
\* MuxedAccount is its own conversion.
IntoMuxedAccount(s) ==
    IF s.type = "PublicKey" THEN MuxedEd25519(s.key) ELSE s

\* What the caller passes to with_source_account.
Sources == {PublicKey(Key1), PublicKey(Key2), MuxedEd25519(Key0)}
MuxedAccounts == {IntoMuxedAccount(s) : s \in Sources}
OptionalAccounts == {None} \cup {Some(a) : a \in MuxedAccounts}

(***************************************************************************)
(* BumpSequenceOperation and BumpSequenceOperationBuilder.                 *)
(***************************************************************************)
BumpSequenceOperation(source_account, bump_to) ==
    [source_account |-> source_account, bump_to |-> bump_to]

\* Operation::BumpSequence(BumpSequenceOperation)
OperationBumpSequence(inner) == [type |-> "BumpSequence", inner |-> inner]

\* A builder or a value that was moved out of its binding.
Moved == [moved |-> TRUE]
Pending == [state |-> "pending"]
Unwrapped == [state |-> "unwrapped"]
NoOp == [held |-> FALSE]

\* BumpSequenceOperationBuilder::new
new == [source_account |-> None, bump_to |-> None]

\* A variant of with_bump_to that starts from a fresh builder, losing the
\* source account set before.
with_bump_to_resets_source(self, bump_to) ==
    [source_account |-> None, bump_to |-> Some(bump_to)]

with_source_account(self, source) ==
    [self EXCEPT !.source_account = Some(IntoMuxedAccount(source))]

with_bump_to(self, bump_to) ==
    [self EXCEPT !.bump_to = Some(bump_to)]

MissingBumpTo == InvalidOperation("missing bump sequence bump to")
NegativeBumpTo == InvalidOperation("bump sequence bump to must be non negative")

\* A variant of build that takes a missing target as the default 0.
build_defaults_bump_to(self) ==
    LET bump_to == IF self.bump_to.some THEN self.bump_to.value ELSE I64Zero
    IN  IF I64Negative(bump_to)
        THEN Err(NegativeBumpTo)
        ELSE Ok(OperationBumpSequence(
                 BumpSequenceOperation(self.source_account, bump_to)))

\* A variant of build whose range check is `bump_to <= 0`.
build_rejects_zero(self) ==
    IF ~self.bump_to.some
    THEN Err(MissingBumpTo)
    ELSE LET bump_to == self.bump_to.value
         IN  IF I64Negative(bump_to) \/ bump_to = I64Zero
             THEN Err(NegativeBumpTo)
             ELSE Ok(OperationBumpSequence(
                      BumpSequenceOperation(self.source_account, bump_to)))

\* A variant of build that fills an absent source account with the
\* transaction's source.
build_defaults_source(self) ==
    IF ~self.bump_to.some
    THEN Err(MissingBumpTo)
    ELSE LET bump_to == self.bump_to.value
             source_account ==
                 IF self.source_account.some THEN self.source_account
                 ELSE Some(MuxedEd25519(Key0))
         IN  IF I64Negative(bump_to)
             THEN Err(NegativeBumpTo)
             ELSE Ok(OperationBumpSequence(
                      BumpSequenceOperation(source_account, bump_to)))

build(self) ==
    IF ~self.bump_to.some
    THEN Err(MissingBumpTo)
    ELSE LET bump_to == self.bump_to.value
         IN  IF I64Negative(bump_to)
             THEN Err(NegativeBumpTo)
             ELSE Ok(OperationBumpSequence(
                      BumpSequenceOperation(self.source_account, bump_to)))

(***************************************************************************)
(* The XDR types the operation is bridged to.                              *)
(***************************************************************************)
\* xdr::Int64::new and xdr::SequenceNumber::new: single-field wrappers.
XdrInt64(v) == [value |-> v]
XdrSequenceNumber(v) == [value |-> v]
\* xdr::BumpSequenceOp { bump_to }
XdrBumpSequenceOp(bump_to) == [bump_to |-> bump_to]
\* xdr::OperationBody::BumpSequence(inner)
XdrOperationBodyBumpSequence(inner) == [type |-> "BumpSequence", value |-> inner]

\* Every BumpSequenceOp a wire can carry, over the target values tried.
XdrBumpSequenceOps ==
    {XdrBumpSequenceOp(XdrSequenceNumber(XdrInt64(n))) : n \in BumpValues}

\* A variant of to_xdr_operation_body that also puts the source account
\* into the variant payload.
to_xdr_with_source(self) ==
    LET bump_to == XdrSequenceNumber(XdrInt64(self.bump_to))
        inner == [bump_to |-> bump_to, source_account |-> self.source_account]
    IN  Ok(XdrOperationBodyBumpSequence(inner))

\* A variant of to_xdr_operation_body that narrows the target to 32 bits
\* (`self.bump_to as i32 as i64` for a non-negative target).
to_xdr_truncates(self) ==
    LET low == <<0, 0, 0, 0>> \o SubSeq(self.bump_to, 5, 8)
        inner == XdrBumpSequenceOp(XdrSequenceNumber(XdrInt64(low)))
    IN  Ok(XdrOperationBodyBumpSequence(inner))

to_xdr_operation_body(self) ==
    LET bump_to == XdrSequenceNumber(XdrInt64(self.bump_to))
        inner == XdrBumpSequenceOp(bump_to)
    IN  Ok(XdrOperationBodyBumpSequence(inner))

\* A variant of from_xdr_operation_body that forgets the source account.
from_xdr_drops_source(source_account, x) ==
    LET bump_to == x.bump_to.value.value
    IN  Ok(BumpSequenceOperation(None, bump_to))

from_xdr_operation_body(source_account, x) ==
    LET bump_to == x.bump_to.value.value
    IN  Ok(BumpSequenceOperation(source_account, bump_to))

\* *self.bump_to_mut() = n
bump_to_mut(self, n) == [self EXCEPT !.bump_to = n]

\* *self.source_account_mut() = a
source_account_mut(self, a) == [self EXCEPT !.source_account = a]

NoBody == [state |-> "none"]
NotDecoded == [state |-> "none"]
NoArgs == [called |-> FALSE]
NoEnvelope == [held |-> FALSE]
NoText == [state |-> "none"]

(***************************************************************************)
(* The state after construction, and the operations.                       *)
(***************************************************************************)
Init ==
    /\ builder = new
    /\ calls = <<>>
    /\ result = Pending
    /\ op = NoOp
    /\ xdr_body = NoBody
    /\ xdr_of = NoOp
    /\ decoded = NotDecoded
    /\ decoded_args = NoArgs
    /\ envelope = NoEnvelope
    /\ text = NoText
    /\ back = NoText
    /\ text_again = NoText

\* builder = builder.with_source_account(s)
WithSourceAccount ==
    \E s \in Sources :
        /\ builder # Moved
        /\ Len(calls) < MaxCalls
        /\ builder' = with_source_account(builder, s)
        /\ calls' = Append(calls, [setter |-> "with_source_account", arg |-> s])
        /\ UNCHANGED <<result, op, codecVars, envelopeVars>>

\* builder = builder.with_bump_to(n)
WithBumpTo ==
    \E n \in BumpValues :
        /\ builder # Moved
        /\ Len(calls) < MaxCalls
        /\ builder' = with_bump_to(builder, n)
        /\ calls' = Append(calls, [setter |-> "with_bump_to", arg |-> n])
        /\ UNCHANGED <<result, op, codecVars, envelopeVars>>

\* A variant of Build for `build(&self)`: the builder stays usable.
BuildKeepsBuilder ==
    /\ builder # Moved
    /\ result' = build(builder)
    /\ UNCHANGED <<builder, calls, op, codecVars, envelopeVars>>

\* result = builder.build(): build takes self by value, and the builder is
\* not Clone, so the caller's binding is moved from.
Build ==
    /\ builder # Moved
    /\ result' = build(builder)
    /\ builder' = Moved
    /\ UNCHANGED <<calls, op, codecVars, envelopeVars>>

\* op = result.unwrap(), taken out of the Operation::BumpSequence variant.
\* The result is moved from; the call history is of no use past this point.
Unwrap ==
    /\ result.state = "ok"
    /\ op' = result.value.inner
    /\ result' = Unwrapped
    /\ calls' = <<>>
    /\ UNCHANGED <<builder, codecVars, envelopeVars>>

\* *op.bump_to_mut() = n
BumpToMut ==
    \E n \in BumpValues :
        /\ op # NoOp
        /\ op # Moved
        /\ op' = bump_to_mut(op, n)
        /\ UNCHANGED <<builderVars, codecVars, envelopeVars>>

\* *op.source_account_mut() = a
SourceAccountMut ==
    \E a \in OptionalAccounts :
        /\ op # NoOp
        /\ op # Moved
        /\ op' = source_account_mut(op, a)
        /\ UNCHANGED <<builderVars, codecVars, envelopeVars>>

\* xdr_body = op.to_xdr_operation_body()
ToXdrOperationBody ==
    /\ op # NoOp
    /\ op # Moved
    /\ xdr_body' = to_xdr_operation_body(op)
    /\ xdr_of' = op
    /\ UNCHANGED <<builderVars, op, decoded, decoded_args, envelopeVars>>

\* decoded = BumpSequenceOperation::from_xdr_operation_body(source_account, &x)
FromXdrOperationBody ==
    \E source_account \in OptionalAccounts, x \in XdrBumpSequenceOps :
        /\ decoded' = from_xdr_operation_body(source_account, x)
        /\ decoded_args' = [called |-> TRUE, source_account |-> source_account, x |-> x]
        /\ UNCHANGED <<builderVars, op, xdr_body, xdr_of, envelopeVars>>

Next ==
    \/ WithSourceAccount
    \/ WithBumpTo
    \/ Build
    \/ Unwrap
    \/ BumpToMut
    \/ SourceAccountMut
    \/ ToXdrOperationBody
    \/ FromXdrOperationBody

Spec == Init /\ [][Next]_vars

(***************************************************************************)
(* The transaction envelope around one operation, its canonical (XDR)      *)
(* bytes and their base64 text.  The tests of the module drive this path   *)
(* (Transaction::builder .. add_operation .. to_transaction, sign,         *)
(* to_envelope, xdr_base64, from_xdr_base64); its code lies outside the    *)
(* module, so it is taken from the specification's encoding rules and the  *)
(* byte layout of the two expected strings of the tests.                   *)
(***************************************************************************)
\* The sequence number 3556091187167235 of the tests, as an i64.
TestSequence == <<0, 12, 162, 63, 0, 0, 0, 3>>

\* MIN_BASE_FEE: the fee per operation.
MinBaseFee == 100

\* The signatures the signing capability returned in the two tests.  The
\* capability is external: a signature is 64 opaque bytes.
Signature123 ==
    <<22, 53, 213, 230, 138, 207, 58, 70, 15, 251, 50, 134, 200, 210, 150, 52,
      147, 228, 103, 85, 6, 218, 126, 243, 202, 61, 247, 91, 146, 199, 151, 29,
      75, 144, 63, 188, 188, 187, 65, 243, 241, 178, 106, 98, 148, 179, 186,
      147, 133, 200, 91, 29, 212, 82, 246, 84, 129, 82, 123, 234, 54, 67, 94,
      10>>
SignatureMax ==
    <<190, 100, 70, 135, 241, 94, 227, 173, 44, 247, 57, 246, 128, 219, 186,
      162, 120, 67, 239, 161, 187, 0, 190, 204, 220, 164, 61, 62, 206, 187,
      203, 221, 164, 65, 76, 244, 3, 15, 37, 121, 91, 227, 2, 64, 47, 185, 170,
      68, 197, 233, 18, 115, 88, 140, 68, 9, 18, 210, 235, 51, 105, 2, 17, 8>>
Signatures == {Signature123, SignatureMax}

\* The hint of a signature: the last 4 bytes of the signer's public key.
SignatureHint(key) == SubSeq(key, Len(key) - 3, Len(key))

\* Transaction::builder(source, sequence, base_fee).add_operation(operation)
\* .to_transaction(): the total fee is the base fee times the operation
\* count; no time bounds, no memo.
Transaction(source, sequence, base_fee, operations) ==
    [source_account |-> IntoMuxedAccount(source),
     fee |-> base_fee * Len(operations),
     sequence |-> sequence,
     time_bounds |-> None,
     memo |-> "None",
     operations |-> operations]

\* tx.sign(&kp, ..); tx.to_envelope(): the transaction and one decorated
\* signature.
SignedEnvelope(tx, key, signature) ==
    [tx |-> tx,
     signatures |-> <<[hint |-> SignatureHint(key), signature |-> signature]>>]

\* The envelope of the tests around operation value o.
TestEnvelope(o, signature) ==
    SignedEnvelope(
        Transaction(PublicKey(Key0), TestSequence, MinBaseFee,
                    <<OperationBumpSequence(o)>>),
        Key0, signature)

\* ---- encoding ----------------------------------------------------------
\* A 32-bit unsigned integer below 2^31, big-endian.
XdrU32(n) ==
    <<n \div 16777216, (n \div 65536) % 256, (n \div 256) % 256, n % 256>>

Zeros(n) == [i \in 1..n |-> 0]

\* Padding to the next 4-byte boundary after len bytes.
XdrPadLen(len) == (4 - (len % 4)) % 4

\* Variable-length opaque data: length prefix, bytes, zero padding.
XdrVarOpaque(bytes) ==
    XdrU32(Len(bytes)) \o bytes \o Zeros(XdrPadLen(Len(bytes)))

\* MuxedAccount, variant Ed25519: discriminant 0 and the 32 key bytes.
XdrMuxedAccount(a) == XdrU32(0) \o a.key

\* An optional value: a presence discriminant, then the payload.
XdrOptionalAccount(o) ==
    IF o.some THEN XdrU32(1) \o XdrMuxedAccount(o.value) ELSE XdrU32(0)

\* An operation: the optional source account at the Operation layer, then the
\* body: discriminant 11 (bump sequence) and what to_xdr_operation_body gave.
XdrOperation(o) ==
    LET body == to_xdr_operation_body(o.inner).value
    IN  XdrOptionalAccount(o.inner.source_account)
            \o XdrU32(11) \o body.value.bump_to.value.value

RECURSIVE XdrOperations(_)
XdrOperations(ops) ==
    IF ops = <<>> THEN <<>>
    ELSE XdrOperation(Head(ops)) \o XdrOperations(Tail(ops))

XdrDecoratedSignature(d) == d.hint \o XdrVarOpaque(d.signature)

RECURSIVE XdrSignatures(_)
XdrSignatures(sigs) ==
    IF sigs = <<>> THEN <<>>
    ELSE XdrDecoratedSignature(Head(sigs)) \o XdrSignatures(Tail(sigs))

XdrTransaction(tx) ==
    XdrMuxedAccount(tx.source_account)
        \o XdrU32(tx.fee)
        \o tx.sequence
        \o XdrU32(0)                      \* no preconditions / time bounds
        \o XdrU32(0)                      \* Memo::None
        \o XdrU32(Len(tx.operations)) \o XdrOperations(tx.operations)
        \o XdrU32(0)                      \* ext

\* TransactionEnvelope, envelope type 2 (a transaction).
XdrEnvelope(e) ==
    XdrU32(2) \o XdrTransaction(e.tx)
        \o XdrU32(Len(e.signatures)) \o XdrSignatures(e.signatures)

\* ---- decoding ----------------------------------------------------------
\* A reader step gives [ok |-> TRUE, value, pos] or Fail(why); pos is the
\* index of the next unread byte.
Fail(why) == [ok |-> FALSE, error |-> why]
Read(v, pos) == [ok |-> TRUE, value |-> v, pos |-> pos]

\* The first failure ends the decoding: F runs on a successful step only.
Then(r, F(_)) == IF r.ok THEN F(r) ELSE r

Take(buf, pos, n) ==
    IF pos + n - 1 <= Len(buf)
    THEN Read(SubSeq(buf, pos, pos + n - 1), pos + n)
    ELSE Fail("truncated")

\* A 32-bit unsigned integer; the model reads those below 2^31.
ReadU32(buf, pos) ==
    Then(Take(buf, pos, 4), LAMBDA t :
        IF t.value[1] >= 128 THEN Fail("out of range")
        ELSE Read(t.value[1] * 16777216 + t.value[2] * 65536
                      + t.value[3] * 256 + t.value[4], t.pos))

ReadMuxedAccount(buf, pos) ==
    Then(ReadU32(buf, pos), LAMBDA d :
        IF d.value # 0 THEN Fail("unknown discriminant")
        ELSE Then(Take(buf, d.pos, 32), LAMBDA k :
                 Read(MuxedEd25519(k.value), k.pos)))

ReadOptionalAccount(buf, pos) ==
    Then(ReadU32(buf, pos), LAMBDA d :
        IF d.value = 0 THEN Read(None, d.pos)
        ELSE IF d.value = 1
        THEN Then(ReadMuxedAccount(buf, d.pos), LAMBDA a :
                 Read(Some(a.value), a.pos))
        ELSE Fail("unknown discriminant"))

\* The result of from_xdr_operation_body as a reader step ending at pos.
FromBody(r, pos) ==
    IF r.state = "ok" THEN Read(OperationBumpSequence(r.value), pos)
    ELSE Fail(r.error)

\* An operation: the optional source account, the body's discriminant, and
\* the payload, which goes through from_xdr_operation_body.
ReadOperation(buf, pos) ==
    Then(ReadOptionalAccount(buf, pos), LAMBDA s :
        Then(ReadU32(buf, s.pos), LAMBDA d :
            IF d.value # 11 THEN Fail("unknown discriminant")
            ELSE Then(Take(buf, d.pos, 8), LAMBDA n :
                     FromBody(
                         from_xdr_operation_body(
                             s.value,
                             XdrBumpSequenceOp(XdrSequenceNumber(XdrInt64(n.value)))),
                         n.pos))))

RECURSIVE ReadOperations(_, _, _)
ReadOperations(buf, pos, n) ==
    IF n = 0 THEN Read(<<>>, pos)
    ELSE Then(ReadOperation(buf, pos), LAMBDA o :
             Then(ReadOperations(buf, o.pos, n - 1), LAMBDA rest :
                 Read(<<o.value>> \o rest.value, rest.pos)))

\* The padding after len bytes of opaque data must be zero.
ReadPadding(buf, pos, len, v) ==
    Then(Take(buf, pos, XdrPadLen(len)), LAMBDA p :
        IF \E i \in 1..Len(p.value) : p.value[i] # 0
        THEN Fail("non-zero padding")
        ELSE Read(v, p.pos))

ReadVarOpaque(buf, pos, max) ==
    Then(ReadU32(buf, pos), LAMBDA l :
        IF l.value > max THEN Fail("too long")
        ELSE Then(Take(buf, l.pos, l.value), LAMBDA b :
                 ReadPadding(buf, b.pos, l.value, b.value)))

ReadDecoratedSignature(buf, pos) ==
    Then(Take(buf, pos, 4), LAMBDA h :
        Then(ReadVarOpaque(buf, h.pos, 64), LAMBDA g :
            Read([hint |-> h.value, signature |-> g.value], g.pos)))

RECURSIVE ReadSignatures(_, _, _)
ReadSignatures(buf, pos, n) ==
    IF n = 0 THEN Read(<<>>, pos)
    ELSE Then(ReadDecoratedSignature(buf, pos), LAMBDA g :
             Then(ReadSignatures(buf, g.pos, n - 1), LAMBDA rest :
                 Read(<<g.value>> \o rest.value, rest.pos)))

\* A discriminant that must be 0 (no preconditions, Memo::None, ext).
ReadVoid(buf, pos) ==
    Then(ReadU32(buf, pos), LAMBDA d :
        IF d.value # 0 THEN Fail("unknown discriminant")
        ELSE Read(0, d.pos))

ReadTransaction(buf, pos) ==
    Then(ReadMuxedAccount(buf, pos), LAMBDA a :
    Then(ReadU32(buf, a.pos), LAMBDA f :
    Then(Take(buf, f.pos, 8), LAMBDA q :
    Then(ReadVoid(buf, q.pos), LAMBDA c :
    Then(ReadVoid(buf, c.pos), LAMBDA m :
    Then(ReadU32(buf, m.pos), LAMBDA n :
        IF n.value > 100 THEN Fail("too many operations")
        ELSE
    Then(ReadOperations(buf, n.pos, n.value), LAMBDA os :
    Then(ReadVoid(buf, os.pos), LAMBDA x :
        Read([source_account |-> a.value, fee |-> f.value,
              sequence |-> q.value, time_bounds |-> None, memo |-> "None",
              operations |-> os.value],
             x.pos)))))))))

ReadEnvelope(buf) ==
    Then(ReadU32(buf, 1), LAMBDA t :
        IF t.value # 2 THEN Fail("unknown discriminant")
        ELSE
    Then(ReadTransaction(buf, t.pos), LAMBDA tx :
    Then(ReadU32(buf, tx.pos), LAMBDA n :
        IF n.value > 20 THEN Fail("too many signatures")
        ELSE
    Then(ReadSignatures(buf, n.pos, n.value), LAMBDA gs :
        IF gs.pos # Len(buf) + 1 THEN Fail("trailing bytes")
        ELSE Read([tx |-> tx.value, signatures |-> gs.value], gs.pos)))))

\* ---- base64 ------------------------------------------------------------
Base64Alphabet ==
    <<
      "A", "B", "C", "D", "E", "F", "G", "H", "I", "J", "K", "L", "M",
      "N", "O", "P", "Q", "R", "S", "T", "U", "V", "W", "X", "Y", "Z",
      "a", "b", "c", "d", "e", "f", "g", "h", "i", "j", "k", "l", "m",
      "n", "o", "p", "q", "r", "s", "t", "u", "v", "w", "x", "y", "z",
      "0", "1", "2", "3", "4", "5", "6", "7", "8", "9", "+", "/"
    >>

Base64Char(i) == Base64Alphabet[i + 1]

\* The 6-bit value of a character, or -1.
Base64Value(c) ==
    IF \E i \in 0..63 : Base64Char(i) = c
    THEN CHOOSE i \in 0..63 : Base64Char(i) = c
    ELSE -1

\* The byte at index i of bytes, or 0 past its end.
ByteOrZero(bytes, i) == IF i <= Len(bytes) THEN bytes[i] ELSE 0

\* Character j (1..4) of the group that encodes bytes 3k-2 .. 3k.
Base64EncodeChar(bytes, k, j) ==
    LET b1 == ByteOrZero(bytes, 3 * k - 2)
        b2 == ByteOrZero(bytes, 3 * k - 1)
        b3 == ByteOrZero(bytes, 3 * k)
    IN  IF j = 1 THEN Base64Char(b1 \div 4)
        ELSE IF j = 2 THEN Base64Char((b1 % 4) * 16 + (b2 \div 16))
        ELSE IF j = 3
        THEN IF 3 * k - 1 > Len(bytes) THEN "="
             ELSE Base64Char((b2 % 16) * 4 + (b3 \div 64))
        ELSE IF 3 * k > Len(bytes) THEN "="
             ELSE Base64Char(b3 % 64)

\* Standard base64 with padding: every 3 bytes give 4 characters.
Base64Encode(bytes) ==
    [i \in 1..(4 * ((Len(bytes) + 2) \div 3)) |->
        Base64EncodeChar(bytes, ((i - 1) \div 4) + 1, ((i - 1) % 4) + 1)]

\* Bytes of one group of four characters; padding only ends the text, and
\* the bits it leaves unused must be zero.
Base64Group(g, last) ==
    LET a == Base64Value(g[1])
        b == Base64Value(g[2])
        c == Base64Value(g[3])
        d == Base64Value(g[4])
    IN  IF a < 0 \/ b < 0 THEN Fail("invalid character")
        ELSE IF last /\ g[3] = "=" /\ g[4] = "="
        THEN IF b % 16 # 0 THEN Fail("invalid padding")
             ELSE Read(<<a * 4 + (b \div 16)>>, 0)
        ELSE IF c < 0 THEN Fail("invalid character")
        ELSE IF last /\ g[4] = "="
        THEN IF c % 4 # 0 THEN Fail("invalid padding")
             ELSE Read(<<a * 4 + (b \div 16), (b % 16) * 16 + (c \div 4)>>, 0)
        ELSE IF d < 0 THEN Fail("invalid character")
        ELSE Read(<<a * 4 + (b \div 16), (b % 16) * 16 + (c \div 4),
                    (c % 4) * 64 + d>>, 0)

Base64Decode(chars) ==
    IF Len(chars) % 4 # 0 THEN Fail("invalid length")
    ELSE IF chars = <<>> THEN Read(<<>>, 0)
    ELSE LET n == Len(chars) \div 4
             groups == [k \in 1..n |->
                           Base64Group(SubSeq(chars, 4 * k - 3, 4 * k), k = n)]
         IN  IF \E k \in 1..n : ~groups[k].ok
             THEN groups[CHOOSE k \in 1..n : ~groups[k].ok]
             ELSE Read([i \in 1..(3 * (n - 1) + Len(groups[n].value)) |->
                           groups[((i - 1) \div 3) + 1].value[((i - 1) % 3) + 1]],
                       0)

\* envelope.xdr_base64()
xdr_base64(e) == Ok(Base64Encode(XdrEnvelope(e)))

\* TransactionEnvelope::from_xdr_base64(text)
\* A reader's result as a Result.
ToResult(r) == IF r.ok THEN Ok(r.value) ELSE Err(r.error)

from_xdr_base64(t) ==
    ToResult(Then(Base64Decode(t), LAMBDA bytes : ReadEnvelope(bytes.value)))

\* The base64 text test_bump_sequence_with_source expects, character by
\* character.
ExpectedWithSource ==
    <<
      "A", "A", "A", "A", "A", "g", "A", "A", "A", "A", "D", "g",
      "3", "G", "3", "h", "c", "l", "y", "s", "Z", "l", "F", "i",
      "t", "S", "+", "s", "5", "z", "W", "y", "i", "i", "J", "D",
      "5", "B", "0", "S", "T", "W", "y", "5", "L", "X", "C", "j",
      "6", "i", "5", "y", "x", "Q", "A", "A", "A", "G", "Q", "A",
      "D", "K", "I", "/", "A", "A", "A", "A", "A", "w", "A", "A",
      "A", "A", "A", "A", "A", "A", "A", "A", "A", "A", "A", "A",
      "A", "Q", "A", "A", "A", "A", "E", "A", "A", "A", "A", "A",
      "J", "c", "r", "x", "2", "g", "/", "H", "b", "s", "/", "o",
      "h", "F", "5", "C", "V", "F", "G", "7", "B", "5", "J", "J",
      "S", "J", "R", "+", "O", "q", "D", "K", "z", "D", "G", "K",
      "7", "d", "K", "H", "Z", "H", "4", "A", "A", "A", "A", "L",
      "f", "/", "/", "/", "/", "/", "/", "/", "/", "/", "8", "A",
      "A", "A", "A", "A", "A", "A", "A", "A", "A", "e", "o", "u",
      "c", "s", "U", "A", "A", "A", "B", "A", "v", "m", "R", "G",
      "h", "/", "F", "e", "4", "6", "0", "s", "9", "z", "n", "2",
      "g", "N", "u", "6", "o", "n", "h", "D", "7", "6", "G", "7",
      "A", "L", "7", "M", "3", "K", "Q", "9", "P", "s", "6", "7",
      "y", "9", "2", "k", "Q", "U", "z", "0", "A", "w", "8", "l",
      "e", "V", "v", "j", "A", "k", "A", "v", "u", "a", "p", "E",
      "x", "e", "k", "S", "c", "1", "i", "M", "R", "A", "k", "S",
      "0", "u", "s", "z", "a", "Q", "I", "R", "C", "A", "=", "="
    >>

\* The transaction is built around the operation (which moves into it),
\* signed, and wrapped.
ToEnvelope ==
    \E signature \in Signatures :
        /\ op # NoOp
        /\ op # Moved
        /\ envelope = NoEnvelope
        /\ envelope' = TestEnvelope(op, signature)
        /\ op' = Moved
        /\ UNCHANGED <<builderVars, codecVars, text, back, text_again>>

\* text = envelope.xdr_base64()
XdrBase64 ==
    /\ envelope # NoEnvelope
    /\ text = NoText
    /\ text' = xdr_base64(envelope)
    /\ UNCHANGED <<builderVars, op, codecVars, envelope, back, text_again>>

\* back = TransactionEnvelope::from_xdr_base64(&text)
FromXdrBase64 ==
    /\ text.state = "ok"
    /\ back = NoText
    /\ back' = from_xdr_base64(text.value)
    /\ UNCHANGED <<builderVars, op, codecVars, envelope, text, text_again>>

\* text_again = back.xdr_base64()
XdrBase64Again ==
    /\ back.state = "ok"
    /\ text_again = NoText
    /\ text_again' = xdr_base64(back.value)
    /\ UNCHANGED <<builderVars, op, codecVars, envelope, text, back>>

NextEnvelope ==
    \/ WithSourceAccount
    \/ WithBumpTo
    \/ Build
    \/ Unwrap
    \/ BumpToMut
    \/ SourceAccountMut
    \/ ToEnvelope
    \/ XdrBase64
    \/ FromXdrBase64
    \/ XdrBase64Again

SpecEnvelope == Init /\ [][NextEnvelope]_vars

(***************************************************************************)
(* What the call history says.                                             *)
(***************************************************************************)
\* The calls made to one setter, in order.
SetterCalls(setter) == SelectSeq(calls, LAMBDA c : c.setter = setter)

\* The argument of the most recent call to a setter, if it was called.
LastSet(setter) ==
    LET cs == SetterCalls(setter)
    IN  IF cs = <<>> THEN None ELSE Some(cs[Len(cs)].arg)

\* build() has returned and its result is still held.
Built == result.state \in {"ok", "err"}

\* The i64 values tried below zero and from zero up, by name.
NegativeValues == {I64Min, I64MinusOne}
NonNegativeValues == {I64Zero, I64Test123, I64Max}

\* The account a source argument stands for.
AccountOf(s) == [type |-> "MuxedAccount", variant |-> "Ed25519", key |-> s.key]

\* The source account the history calls for: absent, or the last one given.
LastSource ==
    LET s == LastSet("with_source_account")
    IN  IF s.some THEN Some(AccountOf(s.value)) ELSE None

\* An operation value is held in op.
OpHeld == op # NoOp /\ op # Moved

(***************************************************************************)
(* The claims.                                                             *)
(***************************************************************************)

\* C1: on a builder on which with_bump_to was never called, however often
\* with_source_account was, build() returns the missing-field error (the
\* InvalidOperation error saying the bump-to is missing) and never a
\* successful operation.
C1_MissingBumpToRejected ==
    (Built /\ SetterCalls("with_bump_to") = <<>>) =>
        /\ result.state = "err"
        /\ result.error.kind = "InvalidOperation"
        /\ result.error.msg = "missing bump sequence bump to"

\* build() ran on a builder whose source account was set twice and whose
\* target never was.
C1_Witness ==
    /\ Built
    /\ SetterCalls("with_bump_to") = <<>>
    /\ Len(SetterCalls("with_source_account")) >= 2

\* C2: build() with last set target n fails with the invalid-value error
\* (InvalidOperation, bump-to must be non negative) for every n < 0, i64::MIN
\* and -1 included, and succeeds for every n >= 0, 0 and i64::MAX included,
\* with an operation whose bump_to is n.
C2_BuildChecksSign ==
    LET n == LastSet("with_bump_to")
    IN  (Built /\ n.some) =>
            /\ n.value \in NegativeValues =>
                   /\ result.state = "err"
                   /\ result.error.kind = "InvalidOperation"
                   /\ result.error.msg = "bump sequence bump to must be non negative"
            /\ n.value \in NonNegativeValues =>
                   /\ result.state = "ok"
                   /\ result.value.type = "BumpSequence"
                   /\ result.value.inner.bump_to = n.value

\* build() succeeded with target i64::MAX, set after a negative target.
C2_Witness ==
    /\ result.state = "ok"
    /\ result.value.inner.bump_to = I64Max
    /\ Len(SetterCalls("with_bump_to")) >= 2
    /\ SetterCalls("with_bump_to")[1].arg \in NegativeValues

\* C3: for a valid operation value v (any source account, bump_to >= 0),
\* from_xdr_operation_body(v.source_account, body), with body the payload of
\* to_xdr_operation_body(v), returns Ok(v).
C3_OperationRoundTrip ==
    ( /\ xdr_body.state = "ok"
      /\ xdr_of.bump_to \in NonNegativeValues
      /\ decoded_args.called
      /\ decoded_args.source_account = xdr_of.source_account
      /\ decoded_args.x = xdr_body.value.value ) =>
        /\ decoded.state = "ok"
        /\ decoded.value = xdr_of
        /\ decoded.value.bump_to = xdr_of.bump_to
        /\ decoded.value.source_account = xdr_of.source_account

\* An operation with a source account and target i64::MAX was encoded and its
\* body decoded with that source account.
C3_Witness ==
    /\ xdr_body.state = "ok"
    /\ xdr_of.bump_to = I64Max
    /\ xdr_of.source_account.some
    /\ decoded_args.called
    /\ decoded_args.source_account = xdr_of.source_account
    /\ decoded_args.x = xdr_body.value.value
    /\ decoded.state = "ok"

\* C4: decoding a body whose wire target is negative is rejected: whenever
\* from_xdr_operation_body was given a negative target it returned an error.
C4_DecodeRejectsNegative ==
    ( /\ decoded_args.called
      /\ decoded_args.x.bump_to.value.value \in NegativeValues ) =>
        decoded.state = "err"

\* C6: each builder field holds the argument of the most recent call to its
\* own setter, or is unset if that setter was never called, whatever the
\* order and repetitions of the calls; and what build() returns is what it
\* returns on the builder made of those two last values.
C6_LastSetterCallWins ==
    /\ builder # Moved =>
           /\ builder.source_account = LastSource
           /\ builder.bump_to = LastSet("with_bump_to")
    /\ Built =>
           result = build([source_account |-> LastSource,
                           bump_to |-> LastSet("with_bump_to")])

\* The source account was set, then the target, then another source account,
\* and build() succeeded.
C6_Witness ==
    /\ result.state = "ok"
    /\ Len(calls) = 3
    /\ calls[1].setter = "with_source_account"
    /\ calls[2].setter = "with_bump_to"
    /\ calls[3].setter = "with_source_account"
    /\ calls[1].arg # calls[3].arg

\* C7: to_xdr_operation_body always succeeds and gives a BumpSequence body
\* holding the target bump_to and nothing else; the source account is not in
\* it, so an operation with the same bump_to and another source account has
\* the same body.
C7_BodyCarriesOnlyBumpTo ==
    xdr_body.state # "none" =>
        /\ xdr_body =
               [state |-> "ok",
                value |-> [type |-> "BumpSequence",
                           value |-> [bump_to |->
                                         [value |-> [value |-> xdr_of.bump_to]]]]]
        /\ DOMAIN xdr_body.value.value = {"bump_to"}
        /\ (OpHeld /\ op.bump_to = xdr_of.bump_to) =>
               to_xdr_operation_body(op) = xdr_body

\* An operation with a source account was encoded, and the operation now
\* held has the same target and another source account.
C7_Witness ==
    /\ xdr_body.state = "ok"
    /\ xdr_of.source_account.some
    /\ OpHeld
    /\ op.bump_to = xdr_of.bump_to
    /\ op.source_account # xdr_of.source_account

\* The outcome of the builder's run: none before build(), then Built or
\* Rejected.
Outcome ==
    IF result.state = "pending" THEN "none"
    ELSE IF result.state = "err" THEN "Rejected"
    ELSE "Built"

\* C8: build() is terminal and consumes the builder.  Before build() the run
\* has no outcome; build() ends it in exactly one of Built and Rejected; and
\* from then on the builder is gone, no setter call is added, and the outcome
\* never changes.
C8_BuildIsTerminal ==
    [][ /\ (builder # Moved) => Outcome = "none"
        /\ (Outcome' # "none") => builder' = Moved
        /\ (builder # Moved /\ builder' = Moved) =>
               Outcome' \in {"Built", "Rejected"}
        /\ (builder = Moved) =>
               /\ builder' = Moved
               /\ Outcome' = Outcome
               /\ Len(calls') <= Len(calls)
      ]_vars

\* build() rejected a builder on which both setters had been called.
C8_Witness ==
    /\ builder = Moved
    /\ result.state = "err"
    /\ SetterCalls("with_source_account") # <<>>
    /\ SetterCalls("with_bump_to") # <<>>

\* C9: every BumpSequenceOperation value obtained through the module, from
\* build(), from from_xdr_operation_body or after writes through bump_to_mut
\* and source_account_mut, has bump_to >= 0.
C9_BumpToNeverNegative ==
    /\ OpHeld => op.bump_to \notin NegativeValues
    /\ decoded.state = "ok" => decoded.value.bump_to \notin NegativeValues
    /\ result.state = "ok" => result.value.inner.bump_to \notin NegativeValues

\* C10: whether build() succeeds, and with which error it fails, is decided
\* by the bump_to field alone; on success the operation's source account is
\* the builder's: absent if with_source_account was never called, otherwise
\* the last account given.
C10_SourceAccountPassedThrough ==
    LET n == LastSet("with_bump_to")
    IN  Built =>
            /\ result.state = "ok" <=> (n.some /\ n.value \in NonNegativeValues)
            /\ result.state = "err" =>
                   result.error.msg =
                       IF n.some
                       THEN "bump sequence bump to must be non negative"
                       ELSE "missing bump sequence bump to"
            /\ result.state = "ok" =>
                   result.value.inner.source_account = LastSource

\* build() succeeded on a builder whose source account was never set.
C10_Witness ==
    /\ result.state = "ok"
    /\ SetterCalls("with_source_account") = <<>>
    /\ result.value.inner.source_account = None

\* Every operation of the envelope has a valid (non-negative) target.
EnvelopeValid ==
    \A i \in 1..Len(envelope.tx.operations) :
        envelope.tx.operations[i].inner.bump_to \in NonNegativeValues

\* C5: a signed envelope holding one bump-sequence operation with a valid
\* target, with or without a source account of its own, survives the text
\* transport: from_xdr_base64(xdr_base64(e)) is Ok(e), and encoding the
\* decoded envelope gives the same base64 text again.
C5_EnvelopeRoundTrip ==
    (envelope # NoEnvelope /\ EnvelopeValid) =>
        /\ text.state # "none" => text.state = "ok"
        /\ back.state # "none" => back = Ok(envelope)
        /\ text_again.state # "none" => text_again = text

\* The envelope of test_bump_sequence_with_source (source account of
\* keypair1, target i64::MAX) was encoded to the text the test expects,
\* decoded and encoded again.
C5_Witness ==
    /\ envelope # NoEnvelope
    /\ envelope.tx.operations[1].inner.source_account = Some(MuxedEd25519(Key1))
    /\ envelope.tx.operations[1].inner.bump_to = I64Max
    /\ text = Ok(ExpectedWithSource)
    /\ back.state = "ok"
    /\ text_again.state = "ok"

====
